---- MODULE Spec2Model ----
(***************************************************************************)
(* Model of sale_analysis.py: the SalesAnalyzer object (df, metrics), its  *)
(* five methods and the pipeline main() drives over them.                  *)
(*                                                                         *)
(* Numbers.  The program computes in floating point; the model computes    *)
(* exactly.  A number v is stored as the integer v * Unit, where Unit is   *)
(* the least common multiple of 1..MaxRows, so that every mean of at most  *)
(* MaxRows cells is again an integer.  Floating rounding is not modelled.  *)
(* A missing cell (pandas NaN) is the value NaN.  Numbers are >= 0.        *)
(***************************************************************************)
EXTENDS Integers, Sequences, FiniteSets, TLC

VARIABLES
    csv,      \* the file at file_path: NoFile, or the rows it holds
    df,       \* self.df
    metrics,  \* self.metrics
    charts,   \* the image files under screenshots/: file name -> plotted data
    report,   \* analysis_report.md: NoReport, or the document written
    out,      \* standard output: the progress lines printed so far
    result,   \* how the last method call ended: its return value, or "raised"
    pc        \* main()'s position

vars == <<csv, df, metrics, charts, report, out, result, pc>>

-----------------------------------------------------------------------------
(* Bounds *)

MaxRows == 3        \* records in the input file (Spec)
MaxRowsCalls == 2   \* records in the input file (SpecCalls)
MaxCalls == 3       \* calls of generate_visualizations/generate_report (SpecCalls)

-----------------------------------------------------------------------------
(* Values *)

RECURSIVE Gcd(_, _)
Gcd(a, b) == IF b = 0 THEN a ELSE Gcd(b, a % b)

RECURSIVE LcmUpTo(_)
LcmUpTo(n) == IF n <= 1 THEN 1 ELSE (LcmUpTo(n - 1) * n) \div Gcd(LcmUpTo(n - 1), n)

Unit == LcmUpTo(IF MaxRows > MaxRowsCalls THEN MaxRows ELSE MaxRowsCalls)

Num(v) == v * Unit

NaN == 0 - 1        \* a missing numeric cell
NA == "<NA>"        \* a missing text cell

isnull(v) == v = NaN

EmptyDict == [k \in {} |-> 0]
None == [isNone |-> TRUE]
NoFile == [exists |-> FALSE]
NoReport == [written |-> FALSE]

-----------------------------------------------------------------------------
(* Text: Python compares str lexicographically; StrOrder lists every text  *)
(* of the model in that order.                                             *)

StrOrder ==
    <<"April", "February", "January", "Keyboard", "Laptop", "March", "May",
      "Mouse", "North", "South">>

StrRank(s) == CHOOSE i \in 1..Len(StrOrder) : StrOrder[i] = s

StrLess(a, b) == StrRank(a) < StrRank(b)

(* pd.to_datetime on the texts the input files hold: a date, or no parse. *)
DateTexts == {"2024-01-15", "2024-03-05", "2024-04-20", "2024-05-02", "15th of never"}

to_datetime(s) ==
    CASE s = "2024-01-15" -> [ok |-> TRUE, month |-> 1, day |-> 15]
      [] s = "2024-03-05" -> [ok |-> TRUE, month |-> 3, day |-> 5]
      [] s = "2024-04-20" -> [ok |-> TRUE, month |-> 4, day |-> 20]
      [] s = "2024-05-02" -> [ok |-> TRUE, month |-> 5, day |-> 2]
      [] OTHER -> [ok |-> FALSE]

MonthNames ==
    <<"January", "February", "March", "April", "May", "June", "July",
      "August", "September", "October", "November", "December">>

month_name(d) == MonthNames[d.month]

DateLess(a, b) == a.month < b.month \/ (a.month = b.month /\ a.day < b.day)


-----------------------------------------------------------------------------
(* The input files.  A row holds the six columns of the file; a table is   *)
(* up to n rows.  Each family of rows varies the columns one stage works   *)
(* on and fixes the others.                                                *)

Row(date, product, region, quantity, price, total) ==
    [Date |-> date, Product |-> product, Region |-> region,
     Quantity |-> quantity, Price |-> price, Total_Sales |-> total]

ProductRows ==
    {Row("2024-01-15", p, "North", Num(q), Num(2), Num(4)) :
        p \in {"Keyboard", "Laptop", "Mouse"}, q \in {1, 2}}

RegionRows ==
    {Row("2024-01-15", "Laptop", r, Num(1), Num(2), Num(t)) :
        r \in {"North", "South", NA}, t \in {0, 2, 3}}

MonthRows ==
    {Row(d, "Laptop", "North", Num(1), Num(2), Num(t)) :
        d \in DateTexts, t \in {1, 2}}

FillRows ==
    {Row("2024-01-15", "Laptop", "North", q, p, t) :
        q \in {NaN, Num(1), Num(3)}, p \in {NaN, Num(2)}, t \in {NaN, Num(4)}}

TablesOf(R, n) == UNION {[1..k -> R] : k \in 0..n}

InputTables(n) ==
    TablesOf(ProductRows, n) \cup TablesOf(RegionRows, n)
        \cup TablesOf(MonthRows, n) \cup TablesOf(FillRows, n)

InputFiles(n) == {NoFile} \cup {[exists |-> TRUE, rows |-> t] : t \in InputTables(n)}

-----------------------------------------------------------------------------
(* The tabular library: DataFrame, Series and the calls the program makes. *)
(* A DataFrame is its column names and its rows; a Series is a sequence of *)
(* entries [key, val] in index order.                                      *)

FileColumns == {"Date", "Product", "Region", "Quantity", "Price", "Total_Sales"}

read_csv(file) == [columns |-> FileColumns, rows |-> file.rows]

NotNull(rows, col) == {i \in DOMAIN rows : ~isnull(rows[i][col])}

RECURSIVE SumOver(_, _, _)
SumOver(rows, col, I) ==
    IF I = {} THEN 0
    ELSE LET i == CHOOSE j \in I : TRUE
         IN  rows[i][col] + SumOver(rows, col, I \ {i})

(* Series.sum(): missing cells are skipped; the sum of none is 0. *)
sum(rows, col) == SumOver(rows, col, NotNull(rows, col))

(* mean with the missing cells counted in the divisor. *)
mean_over_all_rows(rows, col) ==
    IF NotNull(rows, col) = {} THEN NaN
    ELSE sum(rows, col) \div Len(rows)

(* Series.mean(): missing cells are skipped; the mean of none is NaN. *)
mean(rows, col) ==
    IF NotNull(rows, col) = {} THEN NaN
    ELSE sum(rows, col) \div Cardinality(NotNull(rows, col))

any_null(rows, col) == \E i \in DOMAIN rows : isnull(rows[i][col])

(* Series.fillna(value, inplace=True) on column col. *)
fillna(rows, col, value) ==
    [i \in DOMAIN rows |->
        IF isnull(rows[i][col]) THEN [rows[i] EXCEPT ![col] = value] ELSE rows[i]]

(* groupby(kf): the groups are the distinct keys, missing keys dropped,    *)
(* in sorted key order.                                                    *)
GroupKeys(rows, kf) == {rows[i][kf] : i \in DOMAIN rows} \ {NA}

SortedKeys(S) ==
    CHOOSE s \in [1..Cardinality(S) -> S] :
        /\ \A i, j \in DOMAIN s : i < j => StrLess(s[i], s[j])

(* The keys in the order the rows first show them: groupby(sort=False). *)
EncounterKeys(rows, kf) ==
    LET S == GroupKeys(rows, kf)
        firstRow(k) == CHOOSE i \in DOMAIN rows :
                          rows[i][kf] = k /\ \A j \in 1..(i - 1) : rows[j][kf] # k
    IN  CHOOSE s \in [1..Cardinality(S) -> S] :
            \A i, j \in DOMAIN s : i < j => firstRow(s[i]) < firstRow(s[j])

GroupRows(rows, kf, k) == {i \in DOMAIN rows : rows[i][kf] = k}

groupby_sum_unsorted(rows, kf, vf) ==
    LET ks == EncounterKeys(rows, kf)
    IN  [i \in DOMAIN ks |->
            [key |-> ks[i],
             val |-> SumOver(rows, vf, {j \in DOMAIN rows : rows[j][kf] = ks[i]}
                                            \cap NotNull(rows, vf))]]

groupby_sum(rows, kf, vf) ==
    LET ks == SortedKeys(GroupKeys(rows, kf))
    IN  [i \in DOMAIN ks |->
            [key |-> ks[i],
             val |-> SumOver(rows, vf, GroupRows(rows, kf, ks[i]) \cap NotNull(rows, vf))]]

(* sort_values(ascending=False) with the default sort, which is not        *)
(* stable: every descending arrangement of the entries is a possible       *)
(* outcome; entries with equal values come in any order.                   *)
sort_values_desc(s, f) ==
    {t \in {[i \in DOMAIN s |-> s[p[i]]] : p \in Permutations(DOMAIN s)} :
        \A i, j \in DOMAIN t : i < j => t[i][f] >= t[j][f]}

SeriesMax(s) == CHOOSE v \in {s[i].val : i \in DOMAIN s} : \A j \in DOMAIN s : s[j].val <= v

(* idxmax taking the last entry, as if the series were sorted ascending. *)
idx_of_last(s) == s[Len(s)].key

(* idxmin in place of idxmax. *)
idxmin(s) ==
    LET first == CHOOSE i \in DOMAIN s :
                    /\ \A j \in DOMAIN s : s[i].val <= s[j].val
                    /\ \A j \in DOMAIN s : s[j].val = s[i].val => i <= j
    IN  s[first].key

(* Series.idxmax(): the key of the first entry holding the maximum. *)
idxmax(s) ==
    LET first == CHOOSE i \in DOMAIN s :
                    /\ s[i].val = SeriesMax(s)
                    /\ \A j \in DOMAIN s : s[j].val = SeriesMax(s) => i <= j
    IN  s[first].key

HasKey(s, k) == \E i \in DOMAIN s : s[i].key = k

ValueAt(s, k) == s[CHOOSE i \in DOMAIN s : s[i].key = k].val

(* The series left as it is, not re-indexed. *)
keep_index(s, keys) == s

(* Series.reindex(keys): one entry per key, NaN where the series has none. *)
reindex(s, keys) ==
    [i \in DOMAIN keys |->
        [key |-> keys[i], val |-> IF HasKey(s, keys[i]) THEN ValueAt(s, keys[i]) ELSE NaN]]

Update(d, e) == e @@ d     \* d[k] = v for every entry k: v of e

-----------------------------------------------------------------------------
(* SalesAnalyzer.  Each method is one action over the object and the files *)
(* it writes; result' tells the caller how the call ended.                 *)

Init0 ==
    /\ df = None
    /\ metrics = EmptyDict
    /\ charts = EmptyDict
    /\ report = NoReport
    /\ out = <<>>
    /\ result = "none"
    /\ pc = "load"

load_data ==
    /\ IF csv.exists
       THEN /\ df' = read_csv(csv)
            /\ out' = out \o <<"Data loaded successfully", "Columns">>
            /\ result' = "True"
       ELSE /\ df' = df
            /\ out' = Append(out, "File not found")
            /\ result' = "False"
    /\ UNCHANGED <<csv, metrics, charts, report>>

numeric_cols == <<"Quantity", "Price", "Total_Sales">>

(* One turn of the loop over numeric_cols. *)
FillColumn(rows, col) ==
    IF any_null(rows, col) THEN fillna(rows, col, mean(rows, col)) ELSE rows

RECURSIVE FillColumns(_, _)
FillColumns(rows, cols) ==
    IF cols = <<>> THEN rows
    ELSE FillColumns(FillColumn(rows, Head(cols)), Tail(cols))

RECURSIVE FillLines(_, _)
FillLines(rows, cols) ==
    IF cols = <<>> THEN <<>>
    ELSE (IF any_null(rows, Head(cols)) THEN <<"Filled missing values in " \o Head(cols)>>
          ELSE <<>>) \o FillLines(rows, Tail(cols))

ParseDates(rows) ==
    [i \in DOMAIN rows |->
        LET d == to_datetime(rows[i].Date)
        IN  [rows[i] EXCEPT !.Date = d] @@ [Month |-> month_name(d)]]

clean_data ==
    /\ IF df = None
       THEN /\ df' = df
            /\ out' = Append(out, "No data loaded")
            /\ result' = "False"
       ELSE LET filled == FillColumns(df.rows, numeric_cols)
                lines == <<"Data Cleaning Steps", "Missing values per column">>
                            \o FillLines(df.rows, numeric_cols)
            IN  IF \A i \in DOMAIN filled : to_datetime(filled[i].Date).ok
                THEN /\ df' = [columns |-> df.columns \cup {"Month"},
                               rows |-> ParseDates(filled)]
                     /\ out' = out \o lines \o <<"Data cleaning completed">>
                     /\ result' = "True"
                ELSE /\ df' = [df EXCEPT !.rows = filled]
                     /\ out' = out \o lines
                     /\ result' = "raised"
    /\ UNCHANGED <<csv, metrics, charts, report>>

MetricKeys ==
    {"total_sales", "best_product", "best_product_qty", "avg_transaction",
     "regional_sales", "monthly_sales"}

calculate_metrics ==
    /\ IF df = None
       THEN /\ metrics' = metrics
            /\ out' = Append(out, "Calculating Metrics")
            /\ result' = "raised"
       ELSE \E product_sales \in
                    sort_values_desc(groupby_sum(df.rows, "Product", "Quantity"), "val"),
               regional_sales \in
                    sort_values_desc(groupby_sum(df.rows, "Region", "Total_Sales"), "val") :
            LET m1 == Update(metrics, [total_sales |-> sum(df.rows, "Total_Sales")])
                m4 == Update(m1, [best_product |-> idxmax(product_sales),
                                  best_product_qty |-> SeriesMax(product_sales),
                                  avg_transaction |-> mean(df.rows, "Total_Sales"),
                                  regional_sales |-> regional_sales])
                lines1 == <<"Calculating Metrics", "1. Total Sales Revenue">>
                lines4 == lines1 \o <<"2. Best-selling Product",
                                      "3. Average Transaction Value", "4. Regional Sales">>
            IN  IF product_sales = <<>>
                THEN /\ metrics' = m1
                     /\ out' = out \o lines1
                     /\ result' = "raised"
                ELSE IF "Month" \notin df.columns
                THEN /\ metrics' = m4
                     /\ out' = out \o lines4
                     /\ result' = "raised"
                ELSE /\ metrics' = Update(m4, [monthly_sales |->
                                        groupby_sum(df.rows, "Month", "Total_Sales")])
                     /\ out' = out \o lines4 \o <<"5. Monthly Sales Trend">>
                     /\ result' = "returned"
    /\ UNCHANGED <<csv, df, charts, report>>

months_order == <<"January", "February", "March", "April">>

(* groupby('Product').agg({'Quantity': 'sum', 'Total_Sales': 'sum'}) *)
product_agg(rows) ==
    LET q == groupby_sum(rows, "Product", "Quantity")
        t == groupby_sum(rows, "Product", "Total_Sales")
    IN  [i \in DOMAIN q |-> [key |-> q[i].key, Quantity |-> q[i].val, Total_Sales |-> t[i].val]]

RECURSIVE SeriesSum(_)
SeriesSum(s) == IF s = <<>> THEN 0 ELSE Head(s).val + SeriesSum(Tail(s))

(* The trend chart's data: the monthly series re-indexed by months_order. *)
trend_data(m) == reindex(m["monthly_sales"], months_order)

(* The re-indexed series stored back into self.metrics. *)
VizFrameReindexInPlace ==
    /\ UNCHANGED <<csv, df, report>>
    /\ metrics' = IF "monthly_sales" \in DOMAIN metrics
                  THEN [metrics EXCEPT !["monthly_sales"] = reindex(@, months_order)]
                  ELSE metrics

(* monthly_data is a local name: re-indexing it assigns nothing of self. *)
VizFrame == UNCHANGED <<csv, df, metrics, report>>

(* The pie of a series whose values are all 0 has no defined wedge sizes   *)
(* (0/0): whether drawing it raises depends on the plotting library.       *)
(* With no table, or no row to plot, the first chart already raises; with  *)
(* no monthly_sales in self.metrics the third does (KeyError).             *)
generate_visualizations ==
    /\ IF df = None \/ df.rows = <<>>
       THEN /\ charts' = charts
            /\ out' = Append(out, "Generating Visualizations")
            /\ result' = "raised"
       ELSE \E product_summary \in sort_values_desc(product_agg(df.rows), "Total_Sales"),
               pie_raises \in BOOLEAN :
            LET regional_data == groupby_sum(df.rows, "Region", "Total_Sales")
                c1 == Update(charts, [chart_product_performance |-> product_summary])
                c2 == Update(c1, [chart_regional_sales |-> regional_data])
                lines1 == <<"Generating Visualizations", "Saved: Product Performance Chart">>
                lines2 == lines1 \o <<"Saved: Regional Sales Chart">>
            IN  IF regional_data # <<>> /\ SeriesSum(regional_data) = 0 /\ pie_raises
                THEN /\ charts' = c1
                     /\ out' = out \o lines1
                     /\ result' = "raised"
                ELSE IF "monthly_sales" \notin DOMAIN metrics
                THEN /\ charts' = c2
                     /\ out' = out \o lines2
                     /\ result' = "raised"
                ELSE /\ charts' = Update(c2, [chart_sales_trend |-> trend_data(metrics)])
                     /\ out' = out \o lines2 \o <<"Saved: Monthly Sales Trend Chart">>
                     /\ result' = "returned"
    /\ VizFrame

MinDate(rows) ==
    rows[CHOOSE i \in DOMAIN rows : \A j \in DOMAIN rows : ~DateLess(rows[j].Date, rows[i].Date)].Date

MaxDate(rows) ==
    rows[CHOOSE i \in DOMAIN rows : \A j \in DOMAIN rows : ~DateLess(rows[i].Date, rows[j].Date)].Date

(* (sales / total_sales) * 100 as the exact fraction num/den; 0/0 is the   *)
(* float nan.                                                              *)
percentage(sales, total) == [num |-> sales * 100, den |-> total]

regional_lines(m) ==
    [i \in DOMAIN m["regional_sales"] |->
        [region |-> m["regional_sales"][i].key,
         sales |-> m["regional_sales"][i].val,
         percentage |-> percentage(m["regional_sales"][i].val, m["total_sales"])]]

monthly_lines(m) ==
    [i \in DOMAIN m["monthly_sales"] |->
        [month |-> m["monthly_sales"][i].key, sales |-> m["monthly_sales"][i].val]]

(* The document, by section; the "Generated on" time stamp is left out. *)
report_content ==
    [period |-> <<MinDate(df.rows), MaxDate(df.rows)>>,
     records |-> Len(df.rows),
     total_revenue |-> metrics["total_sales"],
     avg_transaction |-> metrics["avg_transaction"],
     best_product |-> metrics["best_product"],
     best_product_qty |-> metrics["best_product_qty"],
     regional |-> regional_lines(metrics),
     monthly |-> monthly_lines(metrics),
     recommended |-> metrics["best_product"]]

generate_report ==
    /\ IF \/ df = None
          \/ "Month" \notin df.columns
          \/ df.rows = <<>>
          \/ ~(MetricKeys \subseteq DOMAIN metrics)
       THEN /\ report' = report
            /\ out' = out
            /\ result' = "raised"
       ELSE /\ report' = [written |-> TRUE, content |-> report_content]
            /\ out' = Append(out, "Report saved")
            /\ result' = "returned"
    /\ UNCHANGED <<csv, df, metrics, charts>>

-----------------------------------------------------------------------------
(* main(): the pipeline.  An uncaught exception ends the process.          *)

After(next) == IF result' = "raised" THEN "aborted" ELSE next

(* main() going on whatever load_data returned. *)
MainLoadIgnoringResult ==
    /\ pc = "load"
    /\ load_data
    /\ pc' = "clean"

MainLoad ==
    /\ pc = "load"
    /\ load_data
    /\ pc' = IF result' = "True" THEN "clean" ELSE "done"

(* main() with the call of calculate_metrics left out. *)
MainCleanThenViz ==
    /\ pc = "clean"
    /\ clean_data
    /\ pc' = After("viz")

MainClean ==
    /\ pc = "clean"
    /\ clean_data
    /\ pc' = After("calc")

MainCalc ==
    /\ pc = "calc"
    /\ calculate_metrics
    /\ pc' = After("viz")

MainViz ==
    /\ pc = "viz"
    /\ generate_visualizations
    /\ pc' = After("report")

MainReport ==
    /\ pc = "report"
    /\ generate_report
    /\ pc' = After("finish")

MainFinish ==
    /\ pc = "finish"
    /\ out' = out \o <<"ANALYSIS COMPLETED SUCCESSFULLY", "Output Files Generated">>
    /\ pc' = "done"
    /\ UNCHANGED <<csv, df, metrics, charts, report, result>>

Init == csv \in InputFiles(MaxRows) /\ Init0

Next == MainLoad \/ MainClean \/ MainCalc \/ MainViz \/ MainReport \/ MainFinish

Spec == Init /\ [][Next]_vars

-----------------------------------------------------------------------------
(* A caller other than main(): once the metrics are calculated it calls    *)
(* the two output stages in any order, up to MaxCalls times in all.  Here  *)
(* pc = "viz" is the position after calculate_metrics has returned.        *)

Count(line) == Cardinality({i \in DOMAIN out : out[i] = line})

OutputCalls == Count("Generating Visualizations") + Count("Report saved")

AnyViz ==
    /\ pc = "viz"
    /\ OutputCalls < MaxCalls
    /\ generate_visualizations
    /\ pc' = After("viz")

AnyReport ==
    /\ pc = "viz"
    /\ OutputCalls < MaxCalls
    /\ generate_report
    /\ pc' = After("viz")

InitCalls == csv \in InputFiles(MaxRowsCalls) /\ Init0

NextCalls == MainLoad \/ MainClean \/ MainCalc \/ AnyViz \/ AnyReport

SpecCalls == InitCalls /\ [][NextCalls]_vars

-----------------------------------------------------------------------------
(* Properties *)

Printed(line) == \E i \in DOMAIN out : out[i] = line

(* The lines that mark a stage's start and its completion, in pipeline order. *)
StageLines ==
    <<"Data loaded successfully",
      "Data Cleaning Steps", "Data cleaning completed",
      "Calculating Metrics", "5. Monthly Sales Trend",
      "Generating Visualizations", "Saved: Monthly Sales Trend Chart",
      "Report saved">>

StageLineSet == {StageLines[i] : i \in DOMAIN StageLines}

StageLog == SelectSeq(out, LAMBDA l : l \in StageLineSet)

IsPrefix(s, t) == Len(s) <= Len(t) /\ \A i \in DOMAIN s : s[i] = t[i]

(* C1: when the input file does not exist, load_data returns False and the *)
(* pipeline halts there: no later stage prints or writes anything, df      *)
(* stays None, metrics stays empty, and main() ends normally, never by an  *)
(* uncaught exception.                                                     *)
C1_MissingFileHalts ==
    ~csv.exists =>
        /\ df = None
        /\ metrics = EmptyDict
        /\ charts = EmptyDict
        /\ report = NoReport
        /\ pc \in {"load", "done"}
        /\ StageLog = <<>>
        /\ pc = "done" => (result = "False" /\ out = <<"File not found">>)

C1_Witness == ~csv.exists /\ pc = "done"

(* C2: when load_data succeeds the stages run strictly forward, each at    *)
(* most once and, in a run that reaches the end, each exactly once:        *)
(* calculate_metrics starts only after clean_data has completed, and       *)
(* generate_visualizations and generate_report only after                  *)
(* calculate_metrics has populated metrics.                                *)
C2_StagesForwardOnce ==
    csv.exists =>
        /\ IsPrefix(StageLog, StageLines)
        /\ Printed("Generating Visualizations") => MetricKeys \subseteq DOMAIN metrics
        /\ report # NoReport => MetricKeys \subseteq DOMAIN metrics
        /\ pc = "done" => StageLog = StageLines

C2_Witness == csv.exists /\ pc = "done" /\ report # NoReport

(* What the loaded table held in column col, and what df holds there. *)
Loaded(col) == [i \in DOMAIN csv.rows |-> csv.rows[i][col]]

Cleaned(col) == [i \in DOMAIN df.rows |-> df.rows[i][col]]

Present(col) == {i \in DOMAIN csv.rows : csv.rows[i][col] # NaN}

RECURSIVE SeqSum(_, _)
SeqSum(s, I) ==
    IF I = {} THEN 0
    ELSE LET i == CHOOSE j \in I : TRUE IN s[i] + SeqSum(s, I \ {i})

(* v is the arithmetic mean of the entries of Loaded(col) that are present. *)
IsMeanOfPresent(v, col) ==
    IF Present(col) = {} THEN v = NaN
    ELSE v * Cardinality(Present(col)) = SeqSum(Loaded(col), Present(col))

(* C3: once clean_data has run on a loaded table, in each of Quantity,     *)
(* Price and Total_Sales every entry that was missing holds the mean of    *)
(* the entries of that same column that were present, and every entry      *)
(* that was present is unchanged; nothing of another column enters.        *)
C3_FillWithColumnMean ==
    (csv.exists /\ Printed("Data Cleaning Steps")) =>
        \A c \in DOMAIN numeric_cols :
            LET col == numeric_cols[c]
            IN  /\ DOMAIN Cleaned(col) = DOMAIN Loaded(col)
                /\ \A i \in DOMAIN Loaded(col) :
                      IF i \in Present(col)
                      THEN Cleaned(col)[i] = Loaded(col)[i]
                      ELSE IsMeanOfPresent(Cleaned(col)[i], col)

(* The column [1, missing, 3] has become [1, 2, 3]. *)
C3_Witness ==
    /\ csv.exists
    /\ Printed("Data cleaning completed")
    /\ Loaded("Quantity") = <<Num(1), NaN, Num(3)>>
    /\ Cleaned("Quantity") = <<Num(1), Num(2), Num(3)>>


CalcReturned == Printed("5. Monthly Sales Trend")

Products == {df.rows[i].Product : i \in DOMAIN df.rows} \ {NA}

QuantitySold(p) ==
    SeqSum(Cleaned("Quantity"),
           {i \in DOMAIN df.rows : df.rows[i].Product = p /\ df.rows[i].Quantity # NaN})

(* The products whose summed Quantity no other product's exceeds. *)
TopProducts == {p \in Products : \A q \in Products : QuantitySold(q) <= QuantitySold(p)}

(* C4: after calculate_metrics on a cleaned table in which exactly one     *)
(* product has the strictly largest summed Quantity, best_product is that  *)
(* product and best_product_qty is the sum of Quantity over its records.   *)
C4_UniqueBestProduct ==
    (CalcReturned /\ Cardinality(TopProducts) = 1) =>
        /\ metrics["best_product"] \in TopProducts
        /\ metrics["best_product_qty"] = QuantitySold(metrics["best_product"])

(* Three records, two products; the best one sells in two records and is   *)
(* not the product of the first record.                                    *)
C4_Witness ==
    /\ CalcReturned
    /\ Cardinality(TopProducts) = 1
    /\ Cardinality(Products) >= 2
    /\ df.rows[1].Product \notin TopProducts
    /\ \E i, j \in DOMAIN df.rows :
          i # j /\ df.rows[i].Product \in TopProducts /\ df.rows[j].Product \in TopProducts

FirstEncountered(S) ==
    df.rows[CHOOSE i \in DOMAIN df.rows :
                /\ df.rows[i].Product \in S
                /\ \A j \in 1..(i - 1) : df.rows[j].Product \notin S].Product

(* C5, as claimed: when two or more products tie for the maximum summed    *)
(* Quantity, best_product is the tied product that comes first in the      *)
(* table's record order.                                                   *)
C5_TieFirstEncountered ==
    (CalcReturned /\ Cardinality(TopProducts) >= 2) =>
        metrics["best_product"] = FirstEncountered(TopProducts)

(* C5, amended: when two or more products tie for the maximum summed       *)
(* Quantity, best_product is one of the tied products and best_product_qty *)
(* is that maximum; the table's record order does not decide which.        *)
C5_TieOneOfTheTied ==
    (CalcReturned /\ Cardinality(TopProducts) >= 2) =>
        /\ metrics["best_product"] \in TopProducts
        /\ \A p \in TopProducts : metrics["best_product_qty"] = QuantitySold(p)

C5_Witness ==
    /\ CalcReturned
    /\ Cardinality(TopProducts) >= 2
    /\ Cardinality(Products) > Cardinality(TopProducts)
    /\ metrics["best_product"] # FirstEncountered(TopProducts)

ReportWritten == report # NoReport

RECURSIVE SumNum(_)
SumNum(lines) ==
    IF lines = <<>> THEN 0 ELSE Head(lines).percentage.num + SumNum(Tail(lines))

RECURSIVE SumSales(_)
SumSales(lines) == IF lines = <<>> THEN 0 ELSE Head(lines).sales + SumSales(Tail(lines))

(* C6: the per-region percentages of the report sum to 100; equivalently   *)
(* the per-region sums add up to total_sales, the sum of the Total_Sales   *)
(* column after cleaning.                                                  *)
C6_PercentagesSumTo100 ==
    ReportWritten =>
        LET lines == report.content.regional
            total == metrics["total_sales"]
        IN  /\ total = SeqSum(Cleaned("Total_Sales"),
                              {i \in DOMAIN df.rows : df.rows[i].Total_Sales # NaN})
            /\ SumSales(lines) = total
            /\ \A i \in DOMAIN lines : lines[i].percentage.den # 0
            /\ total # 0 /\ SumNum(lines) = 100 * total

Months == {df.rows[i].Month : i \in DOMAIN df.rows}

MonthRevenue(m) ==
    SeqSum(Cleaned("Total_Sales"),
           {i \in DOMAIN df.rows : df.rows[i].Month = m /\ df.rows[i].Total_Sales # NaN})

FirstRowOf(m) == CHOOSE i \in DOMAIN df.rows :
                    df.rows[i].Month = m /\ \A j \in 1..(i - 1) : df.rows[j].Month # m

MonthlyKeys == [i \in DOMAIN metrics["monthly_sales"] |-> metrics["monthly_sales"][i].key]

MonthlyMapsRevenue ==
    /\ {MonthlyKeys[i] : i \in DOMAIN MonthlyKeys} = Months
    /\ Len(MonthlyKeys) = Cardinality(Months)
    /\ \A i \in DOMAIN MonthlyKeys :
          metrics["monthly_sales"][i].val = MonthRevenue(MonthlyKeys[i])

ReportListsMonthly ==
    ReportWritten =>
        report.content.monthly =
            [i \in DOMAIN MonthlyKeys |->
                [month |-> MonthlyKeys[i], sales |-> metrics["monthly_sales"][i].val]]

(* C7, as claimed: monthly_sales maps each month present to the sum of its *)
(* records' Total_Sales, its entries in the order in which the months      *)
(* first appear in the table, and the report lists them in that order.     *)
C7_MonthlyEncounterOrder ==
    CalcReturned =>
        /\ MonthlyMapsRevenue
        /\ \A i, j \in DOMAIN MonthlyKeys :
              i < j => FirstRowOf(MonthlyKeys[i]) < FirstRowOf(MonthlyKeys[j])
        /\ ReportListsMonthly

(* C7, amended: monthly_sales maps each month present to the sum of its    *)
(* records' Total_Sales, its entries in ascending order of the month's     *)
(* name (the sorted group keys), and the report lists them in that order.  *)
C7_MonthlySortedByName ==
    CalcReturned =>
        /\ MonthlyMapsRevenue
        /\ \A i, j \in DOMAIN MonthlyKeys :
              i < j => StrLess(MonthlyKeys[i], MonthlyKeys[j])
        /\ ReportListsMonthly

(* January's records come first in the table and April is listed first. *)
C7_Witness ==
    /\ ReportWritten
    /\ df.rows[1].Month = "January"
    /\ Len(MonthlyKeys) >= 2
    /\ MonthlyKeys[1] = "April"
    /\ report.content.monthly[1].month = "April"

(* C8: once clean_data has completed no step changes df, and once          *)
(* calculate_metrics has returned no step changes metrics, whatever the    *)
(* order and number of the calls of generate_visualizations and            *)
(* generate_report; calculate_metrics itself changes nothing but metrics   *)
(* (and what it prints).                                                   *)
C8_ReadOnlyAfterwards ==
    [][/\ Printed("Data cleaning completed") => df' = df
       /\ CalcReturned => metrics' = metrics
       /\ pc = "calc" => UNCHANGED <<csv, df, charts, report>>]_vars

(* Both output stages have run, the Visualizer twice and after the         *)
(* Reporter, on metrics whose monthly series re-indexing would change.     *)
C8_Witness ==
    /\ Count("Generating Visualizations") >= 2
    /\ Count("Report saved") >= 1
    /\ out[Len(out)] = "Saved: Monthly Sales Trend Chart"
    /\ HasKey(metrics["monthly_sales"], "May")
    /\ charts["chart_sales_trend"] # metrics["monthly_sales"]

TrendSaved == "chart_sales_trend" \in DOMAIN charts

(* The points the line chart draws: the entries that hold a value. *)
Plotted == SelectSeq(charts["chart_sales_trend"], LAMBDA e : e.val # NaN)

FourMonths == <<"January", "February", "March", "April">>

PresentOfFour == SelectSeq(FourMonths, LAMBDA m : HasKey(metrics["monthly_sales"], m))

(* The pie's data are there and are all 0. *)
PieUndefined ==
    /\ "regional_sales" \in DOMAIN metrics
    /\ metrics["regional_sales"] # <<>>
    /\ \A i \in DOMAIN metrics["regional_sales"] : metrics["regional_sales"][i].val = 0

(* C9: the trend chart plots those of January, February, March and April   *)
(* that monthly_sales holds, in that order, each with its monthly_sales    *)
(* value, and no other month; and whatever the months of the data, the     *)
(* stage goes through to the trend chart (it can only stop earlier, at a   *)
(* pie whose data are all 0).                                              *)
C9_TrendPlotsTheFourMonths ==
    /\ TrendSaved =>
          Plotted = [i \in DOMAIN PresentOfFour |->
                        [key |-> PresentOfFour[i],
                         val |-> ValueAt(metrics["monthly_sales"], PresentOfFour[i])]]
    /\ (pc \in {"report", "finish", "done"} /\ csv.exists) => TrendSaved
    /\ (Printed("Generating Visualizations") /\ ~TrendSaved) => PieUndefined

(* April, January and May are in the data; January and April are plotted. *)
C9_Witness ==
    /\ TrendSaved
    /\ HasKey(metrics["monthly_sales"], "May")
    /\ Len(Plotted) = 2
    /\ Plotted[1].key = "January" /\ Plotted[2].key = "April"
    /\ df.rows[1].Month = "April"
    /\ pc = "done"

(* C10: whenever clean_data returns True, no entry of Quantity, Price or   *)
(* Total_Sales is missing in df, also when every entry of such a column    *)
(* was missing in the loaded table.                                        *)
C10_NoMissingAfterClean ==
    Printed("Data cleaning completed") =>
        \A c \in DOMAIN numeric_cols : \A i \in DOMAIN df.rows :
            df.rows[i][numeric_cols[c]] # NaN

=============================================================================
